---- MODULE Spec2Model ----
(***************************************************************************)
(* Model of the virtio console device backend, vm-virtio/src/console.rs:   *)
(* the shared input channel (ConsoleInput), the two descriptor-chain       *)
(* processors and the epoll loop of ConsoleEpollHandler, and the Console   *)
(* device facade (feature negotiation, activate, drop).                    *)
(***************************************************************************)
EXTENDS Integers, Sequences, FiniteSets, TLC

(* ---------------- program constants ---------------- *)
NUM_QUEUES == 2
VIRTIO_F_VERSION_1 == 32
INPUT_QUEUE_EVENT == 0
OUTPUT_QUEUE_EVENT == 1
INPUT_EVENT == 2
KILL_EVENT == 3
\* an event value that is none of the four, for the arm "_ =>" of run
OTHER_EVENT == 4

(* ---------------- bounds of the model ---------------- *)
MaxInject == 3        \* total number of bytes injected by queue_input_bytes
MaxBatch == 2         \* longest batch of one queue_input_bytes call
MaxRecvChains == 2    \* receive chains the driver offers in a run
MaxTransChains == 2   \* transmit chains the driver offers in a run
MaxLen == 2           \* longest descriptor chain
MaxActivate == 2      \* activate calls made on the Console
MaxEvt == 1           \* cap of the two queue-kick eventfd counters
MaxPending == 2       \* cap of the input_evt counter
NumProducers == 2     \* threads that call queue_input_bytes concurrently

VARIABLES
  \* Console (struct Console)
  out,              \* Console.out: TRUE while the Option holds the sink
  kill_evt,         \* Console.kill_evt: 0 for None, else the id of the eventfd
  avail_features,   \* Console.avail_features
  acked_features,   \* Console.acked_features
  dropped,          \* the Console has been dropped
  \* ConsoleInput
  in_buffer,        \* the VecDeque<u8> behind the mutex
  poisoned,         \* the mutex was poisoned by a panic of its holder
  input_evt,        \* counter of ConsoleInput.input_evt
  lock,             \* holder of the mutex: 0 when free, else the producer
  prod,             \* the queue_input_bytes call each producer thread is in
  \* guest side: virtqueues and guest memory
  recv_desc,        \* every receive chain the driver offered, by index
  recv_avail,       \* receive chains available, not yet yielded
  recv_used,        \* used ring of the receive queue
  trans_desc,       \* every transmit chain the driver offered, by index
  trans_avail,      \* transmit chains available, not yet yielded
  trans_used,       \* used ring of the transmit queue
  mem,              \* guest memory of the receive buffers, by address
  \* host side
  sink,             \* bytes the output sink accepted
  flushes,          \* number of flush calls made on the sink
  interrupts,       \* number of successful interrupt_cb calls
  \* ConsoleEpollHandler and its thread
  pc,               \* position of the worker thread
  events,           \* events of the current epoll pass not yet dispatched
  h_kill,           \* ConsoleEpollHandler.kill_evt: id of the eventfd
  kill_count,       \* counters of the kill eventfds, by id
  input_queue_evt,  \* counter of ConsoleEpollHandler.input_queue_evt
  output_queue_evt, \* counter of ConsoleEpollHandler.output_queue_evt
  exit,             \* why the worker thread ended
  \* history
  injected,         \* every byte passed to queue_input_bytes, in order
  recv_yielded,     \* indices of the receive chains the iterator yielded
  trans_yielded,    \* indices of the transmit chains the iterator yielded
  workers,          \* number of worker threads spawned
  activations,      \* number of activate calls made
  well_formed,      \* number of activate calls given 2 queues and 2 eventfds
  last              \* the last call of a processor or of a method of Console
                    \* or ConsoleInput, with its inputs and its result

vars == <<out, kill_evt, avail_features, acked_features, dropped,
          in_buffer, poisoned, input_evt, lock, prod,
          recv_desc, recv_avail, recv_used, trans_desc, trans_avail,
          trans_used, mem, sink, flushes, interrupts,
          pc, events, h_kill, kill_count, input_queue_evt, output_queue_evt,
          exit, injected, recv_yielded, trans_yielded, workers, activations,
          well_formed, last>>

consoleVars == <<out, kill_evt, avail_features, acked_features, dropped>>
channelVars == <<in_buffer, poisoned, input_evt, injected, lock, prod>>
recvVars    == <<recv_desc, recv_avail, recv_used, mem, recv_yielded>>
transVars   == <<trans_desc, trans_avail, trans_used, sink, flushes,
                 trans_yielded>>
workerVars  == <<pc, events, h_kill, exit, workers>>

(* ---------------- helpers ---------------- *)
\* the threads that call queue_input_bytes, once each, and a thread that is
\* in no call, after it has made c of them
Producers == 1..NumProducers
Idle(c) == [pc |-> "idle", batch |-> <<>>, pos |-> 0, calls |-> c]

\* Variant of MutexFree in which lock() never waits.
MutexFree_always == TRUE

\* Mutex::lock returns once no thread holds the mutex
MutexFree == lock = 0

\* the value of last after a step that is no such call
NoCall == [op |-> "none"]

Min(a, b) == IF a <= b THEN a ELSE b

\* A u64 or u32 is the set of the positions of its 1 bits (TLC's integers
\* are too narrow for the values): & is the intersection, | the union.
Bits64 == 0..63
Bits32 == 0..31
And64(a, b) == a \cap b
Or64(a, b) == a \cup b
Not64(a) == Bits64 \ a
\* u64::from(value) << 32
Shl32(a) == {b + 32 : b \in a} \cap Bits64

RECURSIVE Concat(_)
Concat(ss) == IF ss = <<>> THEN <<>> ELSE Head(ss) \o Concat(Tail(ss))

IsPrefix(s, t) == Len(s) <= Len(t) /\ SubSeq(t, 1, Len(s)) = s

Range(s) == {s[i] : i \in DOMAIN s}

(* ---------------- guest memory ---------------- *)
\* The buffer of receive chain i is at address i; UnmappedAddr is an address
\* outside the guest memory map, where GuestMemoryMmap::write_slice and
\* write_to fail.
UnmappedAddr == MaxRecvChains + MaxTransChains
Mapped(addr) == addr < UnmappedAddr

\* GuestMemoryMmap::write_slice(buf, addr) on a mapped address
write_slice(m, buf, addr) ==
  [m EXCEPT ![addr] = buf \o SubSeq(m[addr], Len(buf) + 1, Len(m[addr]))]

\* the bytes the driver placed in transmit chain d
TxData(d) == [k \in 1..d.len |-> (16 * (d.index + 1) + k) % 256]

(* ---------------- construction ---------------- *)
\* Console::new(out), out being Some or None; nothing offered, nothing
\* injected, no thread.
Init ==
  /\ out \in BOOLEAN
  /\ kill_evt = 0
  /\ avail_features = {VIRTIO_F_VERSION_1}
  /\ acked_features = {}
  /\ dropped = FALSE
  /\ in_buffer = <<>>
  /\ poisoned = FALSE
  /\ input_evt = 0
  /\ lock = 0
  /\ prod = [p \in Producers |-> Idle(0)]
  /\ recv_desc = <<>>
  /\ recv_avail = <<>>
  /\ recv_used = <<>>
  /\ trans_desc = <<>>
  /\ trans_avail = <<>>
  /\ trans_used = <<>>
  /\ mem = [a \in 0..(MaxRecvChains - 1) |-> <<>>]
  /\ sink = <<>>
  /\ flushes = 0
  /\ interrupts = 0
  /\ pc = "none"
  /\ events = {}
  /\ h_kill = 0
  /\ kill_count = [i \in 1..MaxActivate |-> 0]
  /\ input_queue_evt = 0
  /\ output_queue_evt = 0
  /\ exit = "none"
  /\ injected = <<>>
  /\ recv_yielded = <<>>
  /\ trans_yielded = <<>>
  /\ workers = 0
  /\ activations = 0
  /\ well_formed = 0
  /\ last = NoCall

(* ---------------- the driver (guest) ---------------- *)
\* The driver places an empty buffer of len bytes in the receive queue; the
\* buffer is in mapped guest memory or not.
OfferRecvChain ==
  /\ Len(recv_desc) < MaxRecvChains
  /\ \E len \in 1..MaxLen, mapped \in BOOLEAN :
       LET idx == Len(recv_desc)
           d == [index |-> idx,
                 addr |-> IF mapped THEN idx ELSE UnmappedAddr,
                 len |-> len]
       IN /\ recv_desc' = Append(recv_desc, d)
          /\ recv_avail' = Append(recv_avail, d)
          /\ last' = NoCall
  /\ UNCHANGED <<consoleVars, channelVars, recv_used, mem, recv_yielded,
                 transVars, workerVars, interrupts, kill_count,
                 input_queue_evt, output_queue_evt, activations, well_formed>>

\* The driver places len characters in the transmit queue.
OfferTransChain ==
  /\ Len(trans_desc) < MaxTransChains
  /\ \E len \in 1..MaxLen, mapped \in BOOLEAN :
       LET idx == Len(trans_desc)
           d == [index |-> idx,
                 addr |-> IF mapped THEN MaxRecvChains + idx
                          ELSE UnmappedAddr,
                 len |-> len]
       IN /\ trans_desc' = Append(trans_desc, d)
          /\ trans_avail' = Append(trans_avail, d)
          /\ last' = NoCall
  /\ UNCHANGED <<consoleVars, channelVars, recvVars, trans_used, sink,
                 flushes, trans_yielded, workerVars, interrupts, kill_count,
                 input_queue_evt, output_queue_evt, activations, well_formed>>

\* The driver kicks the receive queue: it writes the eventfd the handler
\* holds as input_queue_evt, once the device is activated.
KickRecv ==
  /\ pc # "none"
  /\ input_queue_evt < MaxEvt
  /\ input_queue_evt' = input_queue_evt + 1
  /\ last' = NoCall
  /\ UNCHANGED <<consoleVars, channelVars, recvVars, transVars, workerVars,
                 interrupts, kill_count, output_queue_evt, activations, well_formed>>

\* The driver kicks the transmit queue: it writes the handler's
\* output_queue_evt.
KickTrans ==
  /\ pc # "none"
  /\ output_queue_evt < MaxEvt
  /\ output_queue_evt' = output_queue_evt + 1
  /\ last' = NoCall
  /\ UNCHANGED <<consoleVars, channelVars, recvVars, transVars, workerVars,
                 interrupts, kill_count, input_queue_evt, activations, well_formed>>

(* ---------------- ConsoleInput ---------------- *)
\* The bytes of a batch are numbered in injection order, so that any loss,
\* duplication or reordering of bytes shows in their values.
NextBytes(n) == [k \in 1..n |-> (65 + Len(injected) + k - 1) % 256]

\* ConsoleInput::queue_input_bytes(input): lock().unwrap() panics in the
\* caller when the mutex is poisoned; otherwise the batch is appended and
\* input_evt is written, all before the guard is dropped.
queue_input_bytes ==
  \E n \in 0..MaxBatch :
    /\ MutexFree
    /\ Len(injected) + n <= MaxInject
    /\ input_evt < MaxPending
    /\ IF poisoned
       THEN /\ last' = [op |-> "queue_input_bytes", panicked |-> TRUE]
            /\ UNCHANGED <<in_buffer, input_evt, injected>>
       ELSE /\ in_buffer' = in_buffer \o NextBytes(n)
            /\ injected' = injected \o NextBytes(n)
            /\ input_evt' = input_evt + 1
            /\ last' = [op |-> "queue_input_bytes", panicked |-> FALSE]
    /\ UNCHANGED <<consoleVars, poisoned, lock, prod, recvVars, transVars,
                   workerVars, interrupts, kill_count, input_queue_evt,
                   output_queue_evt, activations, well_formed>>

\* queue_input_bytes step by step, for producer threads that run
\* concurrently with each other and with the worker. The bytes of a batch
\* tell the producer and the position they come from.
BatchBytes(p, n) == [k \in 1..n |-> (MaxBatch * (p - 1) + k - 1) % 256]

\* in_buffer.lock().unwrap(): taken when the mutex is free; a poisoned mutex
\* makes unwrap panic in the caller, which makes no further call
ProducerLocks ==
  \E p \in Producers, n \in 0..MaxBatch :
    /\ prod[p].pc = "idle"
    /\ prod[p].calls = 0
    /\ Len(injected) + n <= MaxInject
    /\ MutexFree
    /\ IF poisoned
       THEN /\ prod' = [prod EXCEPT ![p] = [pc |-> "panicked", batch |-> <<>>,
                                            pos |-> 0, calls |-> @.calls + 1]]
            /\ last' = [op |-> "queue_input_bytes", panicked |-> TRUE]
            /\ lock' = lock
       ELSE /\ prod' = [prod EXCEPT ![p] =
                          [pc |-> "extend",
                           batch |-> BatchBytes(p, n),
                           pos |-> 0, calls |-> @.calls + 1]]
            /\ lock' = p
            /\ last' = NoCall
    /\ UNCHANGED <<consoleVars, in_buffer, poisoned, input_evt, injected,
                   recvVars, transVars, workerVars, interrupts, kill_count,
                   input_queue_evt, output_queue_evt, activations,
                   well_formed>>

\* in_buffer.extend(input): the bytes are pushed one after the other
ProducerExtends ==
  \E p \in Producers :
    /\ prod[p].pc = "extend"
    /\ prod[p].pos < Len(prod[p].batch)
    /\ in_buffer' = Append(in_buffer, prod[p].batch[prod[p].pos + 1])
    /\ injected' = Append(injected, prod[p].batch[prod[p].pos + 1])
    /\ prod' = [prod EXCEPT ![p].pos = @ + 1]
    /\ last' = NoCall
    /\ UNCHANGED <<consoleVars, poisoned, input_evt, lock, recvVars,
                   transVars, workerVars, interrupts, kill_count,
                   input_queue_evt, output_queue_evt, activations,
                   well_formed>>

\* let _ = self.input_evt.write(1), with the guard still alive
ProducerNotifies ==
  \E p \in Producers :
    /\ prod[p].pc = "extend"
    /\ prod[p].pos = Len(prod[p].batch)
    /\ input_evt' = input_evt + 1
    /\ prod' = [prod EXCEPT ![p].pc = "written"]
    /\ last' = NoCall
    /\ UNCHANGED <<consoleVars, in_buffer, poisoned, injected, lock,
                   recvVars, transVars, workerVars, interrupts, kill_count,
                   input_queue_evt, output_queue_evt, activations,
                   well_formed>>

\* the guard is dropped as the function returns
ProducerReturns ==
  \E p \in Producers :
    /\ prod[p].pc = "written"
    /\ lock' = IF lock = p THEN 0 ELSE lock
    /\ prod' = [prod EXCEPT ![p] = Idle(@.calls)]
    /\ last' = [op |-> "queue_input_bytes", panicked |-> FALSE]
    /\ UNCHANGED <<consoleVars, in_buffer, poisoned, input_evt, injected,
                   recvVars, transVars, workerVars, interrupts, kill_count,
                   input_queue_evt, output_queue_evt, activations,
                   well_formed>>

(* ---------------- the descriptor-chain processors ---------------- *)
\* VecDeque::drain(start..end) panics when start > end or end > len.
DrainPanics(buf, start, end) == start > end \/ end > Len(buf)

\* what VecDeque::drain(start..end) yields, and what it leaves
Drained(buf, start, end) == SubSeq(buf, start + 1, end)
\* Variant of AfterDrain that leaves nothing in the deque.
AfterDrain_clear(buf, start, end) == <<>>

AfterDrain(buf, start, end) ==
  SubSeq(buf, 1, start) \o SubSeq(buf, end + 1, Len(buf))

\* Variant of piq_loop that records each chain in front of the chains
\* recorded before it.
RECURSIVE piq_loop_newest_first(_, _, _, _, _, _, _)
piq_loop_newest_first(buf, avail, yielded, heads, write_count, count, m) ==
  IF avail = <<>>
  THEN [buf |-> buf, avail |-> avail, yielded |-> yielded, heads |-> heads,
        mem |-> m, panic |-> FALSE, failed |-> FALSE]
  ELSE
    LET avail_desc == Head(avail)
        limit == Min(write_count + avail_desc.len, count)
        now_yielded == Append(yielded, avail_desc.index)
    IN
    IF DrainPanics(buf, write_count, limit)
    THEN [buf |-> buf, avail |-> Tail(avail), yielded |-> now_yielded,
          heads |-> heads, mem |-> m, panic |-> TRUE, failed |-> FALSE]
    ELSE
      LET source_slice == Drained(buf, write_count, limit)
          rest == AfterDrain(buf, write_count, limit)
      IN
      IF ~Mapped(avail_desc.addr)
      THEN \* Err(e) => break
           [buf |-> rest, avail |-> Tail(avail), yielded |-> now_yielded,
            heads |-> heads, mem |-> m, panic |-> FALSE, failed |-> TRUE]
      ELSE
        LET len == limit - write_count
            new_heads == <<[index |-> avail_desc.index, len |-> len]>>
                         \o heads
            new_m == write_slice(m, source_slice, avail_desc.addr)
        IN
        IF limit >= count
        THEN [buf |-> rest, avail |-> Tail(avail), yielded |-> now_yielded,
              heads |-> new_heads, mem |-> new_m, panic |-> FALSE,
              failed |-> FALSE]
        ELSE piq_loop_newest_first(rest, Tail(avail), now_yielded, new_heads, limit,
                      count, new_m)

\* The sums and casts of the loop stay far below 2^32 for the lengths of
\* the model, so the u32 arithmetic is plain arithmetic here.
\* The for loop of process_input_queue over the chains recv_queue.iter()
\* yields. The result: the channel, the chains left available, the chains
\* yielded, the recorded used_desc_heads, guest memory, and whether the
\* loop panicked.
RECURSIVE piq_loop(_, _, _, _, _, _, _)
piq_loop(buf, avail, yielded, heads, write_count, count, m) ==
  IF avail = <<>>
  THEN [buf |-> buf, avail |-> avail, yielded |-> yielded, heads |-> heads,
        mem |-> m, panic |-> FALSE, failed |-> FALSE]
  ELSE
    LET avail_desc == Head(avail)
        limit == Min(write_count + avail_desc.len, count)
        now_yielded == Append(yielded, avail_desc.index)
    IN
    IF DrainPanics(buf, write_count, limit)
    THEN [buf |-> buf, avail |-> Tail(avail), yielded |-> now_yielded,
          heads |-> heads, mem |-> m, panic |-> TRUE, failed |-> FALSE]
    ELSE
      LET source_slice == Drained(buf, write_count, limit)
          rest == AfterDrain(buf, write_count, limit)
      IN
      IF ~Mapped(avail_desc.addr)
      THEN \* Err(e) => break
           [buf |-> rest, avail |-> Tail(avail), yielded |-> now_yielded,
            heads |-> heads, mem |-> m, panic |-> FALSE, failed |-> TRUE]
      ELSE
        LET len == limit - write_count
            new_heads == Append(heads, [index |-> avail_desc.index,
                                        len |-> len])
            new_m == write_slice(m, source_slice, avail_desc.addr)
        IN
        IF limit >= count
        THEN [buf |-> rest, avail |-> Tail(avail), yielded |-> now_yielded,
              heads |-> new_heads, mem |-> new_m, panic |-> FALSE,
              failed |-> FALSE]
        ELSE piq_loop(rest, Tail(avail), now_yielded, new_heads, limit,
                      count, new_m)

\* ConsoleEpollHandler::process_input_queue, from the state it is called in
process_input_queue_result ==
  piq_loop(in_buffer, recv_avail, <<>>, <<>>, 0, Len(in_buffer), mem)

\* Variant of poq_loop that records for a chain the number of bytes that
\* reached the sink instead of avail_desc.len.
RECURSIVE poq_loop_written_len(_, _, _, _, _, _)
poq_loop_written_len(avail, w, yielded, heads, snk, nflush) ==
  IF avail = <<>>
  THEN [avail |-> avail, yielded |-> yielded, heads |-> heads,
        sink |-> snk, flushes |-> nflush]
  ELSE
    LET avail_desc == Head(avail)
        pos == Len(yielded) + 1
    IN poq_loop_written_len(Tail(avail), w,
                Append(yielded, avail_desc.index),
                Append(heads, [index |-> avail_desc.index,
                               len |-> w[pos]]),
                snk \o SubSeq(TxData(avail_desc), 1, w[pos]),
                nflush + 1)

\* Variant of poq_loop that leaves the loop at the first chain whose
\* write_to fails, as process_input_queue does.
RECURSIVE poq_loop_break(_, _, _, _, _, _)
poq_loop_break(avail, w, yielded, heads, snk, nflush) ==
  IF avail = <<>>
  THEN [avail |-> avail, yielded |-> yielded, heads |-> heads,
        sink |-> snk, flushes |-> nflush]
  ELSE
    LET avail_desc == Head(avail)
        pos == Len(yielded) + 1
    IN IF w[pos] < avail_desc.len
       THEN [avail |-> Tail(avail),
             yielded |-> Append(yielded, avail_desc.index),
             heads |-> heads,
             sink |-> snk \o SubSeq(TxData(avail_desc), 1, w[pos]),
             flushes |-> nflush]
       ELSE poq_loop_break(Tail(avail), w,
                Append(yielded, avail_desc.index),
                Append(heads, [index |-> avail_desc.index,
                               len |-> avail_desc.len]),
                snk \o SubSeq(TxData(avail_desc), 1, w[pos]),
                nflush + 1)

\* One transmit chain of process_output_queue: w is the number of bytes the
\* sink accepted before write_to returned (all of them, or fewer when the
\* guest-memory read or the sink write failed).
RECURSIVE poq_loop(_, _, _, _, _, _)
poq_loop(avail, w, yielded, heads, snk, nflush) ==
  IF avail = <<>>
  THEN [avail |-> avail, yielded |-> yielded, heads |-> heads,
        sink |-> snk, flushes |-> nflush]
  ELSE
    LET avail_desc == Head(avail)
        pos == Len(yielded) + 1
    IN poq_loop(Tail(avail), w,
                Append(yielded, avail_desc.index),
                Append(heads, [index |-> avail_desc.index,
                               len |-> avail_desc.len]),
                snk \o SubSeq(TxData(avail_desc), 1, w[pos]),
                nflush + 1)

\* the outcomes write_to can have on the available transmit chains: an
\* unmapped chain transfers nothing, a mapped one all its bytes or, when the
\* sink fails, only some of them
WriteOutcomes(avail) ==
  { w \in [1..Len(avail) -> 0..MaxLen] :
      \A i \in 1..Len(avail) :
        /\ w[i] <= avail[i].len
        /\ ~Mapped(avail[i].addr) => w[i] = 0 }

\* the chains whose write_to returned an error
FailedWrites(avail, w) == { i \in 1..Len(avail) : w[i] < avail[i].len }

\* ConsoleEpollHandler::process_output_queue under the write outcomes w
process_output_queue_result(w) ==
  poq_loop(trans_avail, w, <<>>, <<>>, sink, flushes)

(* ---------------- ConsoleEpollHandler::run ---------------- *)
\* Variant of Ready for a run that does not register kill_evt.
Ready_without_kill ==
  (IF input_queue_evt > 0 THEN {INPUT_QUEUE_EVENT} ELSE {})
  \cup (IF output_queue_evt > 0 THEN {OUTPUT_QUEUE_EVENT} ELSE {})
  \cup (IF input_evt > 0 THEN {INPUT_EVENT} ELSE {})

\* The registered eventfds whose counter is not zero: what a level-triggered
\* epoll::wait reports.
Ready ==
  (IF input_queue_evt > 0 THEN {INPUT_QUEUE_EVENT} ELSE {})
  \cup (IF output_queue_evt > 0 THEN {OUTPUT_QUEUE_EVENT} ELSE {})
  \cup (IF input_evt > 0 THEN {INPUT_EVENT} ELSE {})
  \cup (IF kill_count[h_kill] > 0 THEN {KILL_EVENT} ELSE {})

\* where the thread goes after an event: the next event of the pass, or
\* back to epoll::wait
AfterEvent(evs) == IF evs = {} THEN "wait" ELSE "dispatch"

\* epoll::create and the four epoll::ctl calls; a failure ends run with Err
RunSetup ==
  /\ pc = "spawned"
  /\ \E ok \in BOOLEAN :
       /\ pc' = IF ok THEN "wait" ELSE "stopped"
       /\ exit' = IF ok THEN exit ELSE "setup_err"
       /\ last' = NoCall
  /\ UNCHANGED <<consoleVars, channelVars, recvVars, transVars, interrupts,
                 events, h_kill, workers, kill_count, input_queue_evt,
                 output_queue_evt, activations, well_formed>>

\* epoll::wait returns the ready events
WaitReturns ==
  /\ pc = "wait"
  /\ Ready # {}
  /\ events' = Ready
  /\ pc' = "dispatch"
  /\ last' = NoCall
  /\ UNCHANGED <<consoleVars, channelVars, recvVars, transVars, interrupts,
                 h_kill, workers, exit, kill_count, input_queue_evt,
                 output_queue_evt, activations, well_formed>>

\* epoll::wait fails with EINTR: continue
WaitInterrupted ==
  /\ pc = "wait"
  /\ last.op # "wait_eintr"
  /\ last' = [op |-> "wait_eintr"]
  /\ UNCHANGED <<consoleVars, channelVars, recvVars, transVars, interrupts,
                 workerVars, kill_count, input_queue_evt, output_queue_evt,
                 activations, well_formed>>

\* epoll::wait fails with another error: return Err(EpollWait)
WaitFails ==
  /\ pc = "wait"
  /\ pc' = "stopped"
  /\ exit' = "wait_err"
  /\ last' = NoCall
  /\ UNCHANGED <<consoleVars, channelVars, recvVars, transVars, interrupts,
                 events, h_kill, workers, kill_count, input_queue_evt,
                 output_queue_evt, activations, well_formed>>

\* Variant of HandleInputQueueEvent that runs process_input_queue after it
\* has read the eventfd.
HandleInputQueueEvent_processes ==
  /\ pc = "dispatch"
  /\ INPUT_QUEUE_EVENT \in events
  /\ events' = events \ {INPUT_QUEUE_EVENT}
  /\ input_queue_evt' = 0
  /\ LET r == process_input_queue_result IN
       /\ in_buffer' = r.buf
       /\ mem' = r.mem
       /\ recv_avail' = r.avail
       /\ recv_used' = recv_used \o r.heads
       /\ recv_yielded' = recv_yielded \o r.yielded
  /\ pc' = AfterEvent(events')
  /\ last' = [op |-> "input_queue_evt", read_ok |-> TRUE]
  /\ UNCHANGED <<consoleVars, poisoned, input_evt, injected, lock, prod,
                 recv_desc, transVars, interrupts, exit, h_kill, workers,
                 kill_count,
                 output_queue_evt, activations, well_formed>>

\* INPUT_QUEUE_EVENT: read the eventfd, nothing more
HandleInputQueueEvent ==
  /\ pc = "dispatch"
  /\ INPUT_QUEUE_EVENT \in events
  /\ \E read_ok \in BOOLEAN :
       /\ events' = events \ {INPUT_QUEUE_EVENT}
       /\ input_queue_evt' = IF read_ok THEN 0 ELSE input_queue_evt
       /\ pc' = IF read_ok THEN AfterEvent(events') ELSE "stopped"
       /\ exit' = IF read_ok THEN exit ELSE "read_err"
       /\ last' = [op |-> "input_queue_evt", read_ok |-> read_ok]
  /\ UNCHANGED <<consoleVars, channelVars, recvVars, transVars, interrupts,
                 h_kill, workers, kill_count, output_queue_evt, activations, well_formed>>

\* Variant of HandleOutputQueueEvent that signals the used queue when
\* process_output_queue returns true.
HandleOutputQueueEvent_signals ==
  /\ pc = "dispatch"
  /\ OUTPUT_QUEUE_EVENT \in events
  /\ events' = events \ {OUTPUT_QUEUE_EVENT}
  /\ \/ /\ pc' = "stopped"
        /\ exit' = "read_err"
        /\ last' = NoCall
        /\ UNCHANGED <<output_queue_evt, transVars, interrupts>>
     \/ \E w \in WriteOutcomes(trans_avail),
           flush_err \in SUBSET (1..Len(trans_avail)) :
          LET r == process_output_queue_result(w) IN
          /\ output_queue_evt' = 0
          /\ trans_avail' = r.avail
          /\ trans_yielded' = trans_yielded \o r.yielded
          /\ trans_used' = trans_used \o r.heads
          /\ sink' = r.sink
          /\ flushes' = r.flushes
          /\ interrupts' = IF Len(r.heads) > 0 THEN interrupts + 1
                           ELSE interrupts
          /\ pc' = AfterEvent(events')
          /\ last' = [op |-> "process_output_queue", avail |-> trans_avail,
                      nused |-> Len(trans_used), sink |-> sink,
                      nflush |-> flushes, w |-> w,
                      flush_err |-> flush_err,
                      interrupts |-> interrupts,
                      ret |-> Len(r.heads) > 0]
          /\ UNCHANGED <<exit, trans_desc>>
  /\ UNCHANGED <<consoleVars, channelVars, recvVars, h_kill,
                 workers, kill_count, input_queue_evt, activations, well_formed>>

\* OUTPUT_QUEUE_EVENT: read the eventfd, then process_output_queue
HandleOutputQueueEvent ==
  /\ pc = "dispatch"
  /\ OUTPUT_QUEUE_EVENT \in events
  /\ events' = events \ {OUTPUT_QUEUE_EVENT}
  /\ \/ /\ pc' = "stopped"
        /\ exit' = "read_err"
        /\ last' = NoCall
        /\ UNCHANGED <<output_queue_evt, transVars>>
     \/ \E w \in WriteOutcomes(trans_avail),
           flush_err \in SUBSET (1..Len(trans_avail)) :
          \* flush_err: the chains whose out.flush() returned an error,
          \* which let _ = discards
          LET r == process_output_queue_result(w) IN
          /\ output_queue_evt' = 0
          /\ trans_avail' = r.avail
          /\ trans_yielded' = trans_yielded \o r.yielded
          /\ trans_used' = trans_used \o r.heads
          /\ sink' = r.sink
          /\ flushes' = r.flushes
          /\ pc' = AfterEvent(events')
          /\ last' = [op |-> "process_output_queue", avail |-> trans_avail,
                      nused |-> Len(trans_used), sink |-> sink,
                      nflush |-> flushes, w |-> w,
                      flush_err |-> flush_err,
                      interrupts |-> interrupts,
                      ret |-> Len(r.heads) > 0]
          /\ UNCHANGED <<exit, trans_desc>>
  /\ UNCHANGED <<consoleVars, channelVars, recvVars, interrupts, h_kill,
                 workers, kill_count, input_queue_evt, activations, well_formed>>

\* Variant of HandleInputEvent that goes on with the next event when the
\* read of input_evt has failed.
HandleInputEvent_keeps_running ==
  /\ pc = "dispatch"
  /\ INPUT_EVENT \in events
  /\ \E read_ok \in BOOLEAN :
       /\ events' = events \ {INPUT_EVENT}
       /\ input_evt' = IF read_ok THEN 0 ELSE input_evt
       /\ pc' = IF read_ok THEN "input" ELSE AfterEvent(events')
       /\ exit' = IF read_ok THEN exit ELSE "read_err"
       /\ last' = NoCall
  /\ UNCHANGED <<consoleVars, in_buffer, poisoned, injected, lock, prod,
                 recvVars, transVars, interrupts, h_kill, workers, kill_count,
                 input_queue_evt, output_queue_evt, activations, well_formed>>

\* INPUT_EVENT, first half: read the eventfd
HandleInputEvent ==
  /\ pc = "dispatch"
  /\ INPUT_EVENT \in events
  /\ \E read_ok \in BOOLEAN :
       /\ events' = events \ {INPUT_EVENT}
       /\ input_evt' = IF read_ok THEN 0 ELSE input_evt
       /\ pc' = IF read_ok THEN "input" ELSE "stopped"
       /\ exit' = IF read_ok THEN exit ELSE "read_err"
       /\ last' = NoCall
  /\ UNCHANGED <<consoleVars, in_buffer, poisoned, injected, lock, prod,
                 recvVars, transVars, interrupts, h_kill, workers, kill_count,
                 input_queue_evt, output_queue_evt, activations, well_formed>>

\* INPUT_EVENT, second half: process_input_queue and, when it returns true,
\* signal_used_queue. A panic of the drain unwinds the thread while it holds
\* the lock: the mutex is poisoned and the recorded chains are never added
\* to the used ring.
ProcessInput ==
  /\ pc = "input"
  /\ MutexFree
  /\ LET r == process_input_queue_result
         ret == Len(r.heads) > 0
     IN
     /\ recv_avail' = r.avail
     /\ recv_yielded' = recv_yielded \o r.yielded
     /\ IF r.panic
        THEN /\ poisoned' = TRUE
             /\ pc' = "stopped"
             /\ exit' = "panic"
             /\ last' = [op |-> "process_input_queue", buf |-> in_buffer,
                         avail |-> recv_avail, nused |-> Len(recv_used),
                         interrupts |-> interrupts, mem |-> mem,
                         panic |-> TRUE, failed |-> FALSE, ret |-> FALSE]
             \* the drains and writes made before the panic stay
             /\ in_buffer' = r.buf
             /\ mem' = r.mem
             /\ UNCHANGED <<recv_used, interrupts>>
        ELSE /\ in_buffer' = r.buf
             /\ mem' = r.mem
             /\ recv_used' = recv_used \o r.heads
             /\ poisoned' = poisoned
             /\ \E signal_ok \in (IF ret THEN BOOLEAN ELSE {TRUE}) :
                  /\ interrupts' = IF ret /\ signal_ok THEN interrupts + 1
                                   ELSE interrupts
                  /\ pc' = IF signal_ok THEN AfterEvent(events)
                           ELSE "stopped"
                  /\ exit' = IF signal_ok THEN exit ELSE "signal_err"
             /\ last' = [op |-> "process_input_queue", buf |-> in_buffer,
                         avail |-> recv_avail, nused |-> Len(recv_used),
                         interrupts |-> interrupts, mem |-> mem,
                         panic |-> FALSE, failed |-> r.failed, ret |-> ret]
  /\ UNCHANGED <<consoleVars, input_evt, injected, lock, prod, recv_desc,
                 transVars, events, h_kill, workers, kill_count,
                 input_queue_evt, output_queue_evt, activations, well_formed>>

\* KILL_EVENT: break 'epoll, without reading the eventfd
HandleKillEvent ==
  /\ pc = "dispatch"
  /\ KILL_EVENT \in events
  /\ pc' = "stopped"
  /\ exit' = "kill"
  /\ events' = events \ {KILL_EVENT}
  /\ last' = NoCall
  /\ UNCHANGED <<consoleVars, channelVars, recvVars, transVars, interrupts,
                 h_kill, workers, kill_count, input_queue_evt,
                 output_queue_evt, activations, well_formed>>

\* epoll::wait reports, with the ready events, an event whose data is none
\* of the four values run has registered. The kernel reports only
\* registered data, so that no other specification has this step; it is
\* here for the last arm of the match.
WaitReturnsOther ==
  /\ pc = "wait"
  /\ events' = Ready \cup {OTHER_EVENT}
  /\ pc' = "dispatch"
  /\ last' = NoCall
  /\ UNCHANGED <<consoleVars, channelVars, recvVars, transVars, interrupts,
                 h_kill, workers, exit, kill_count, input_queue_evt,
                 output_queue_evt, activations, well_formed>>

\* _ => error!("Unknown event for virtio-console")
HandleOtherEvent ==
  /\ pc = "dispatch"
  /\ OTHER_EVENT \in events
  /\ events' = events \ {OTHER_EVENT}
  /\ pc' = AfterEvent(events')
  /\ last' = [op |-> "other_event"]
  /\ UNCHANGED <<consoleVars, channelVars, recvVars, transVars, interrupts,
                 h_kill, workers, exit, kill_count, input_queue_evt,
                 output_queue_evt, activations, well_formed>>

(* ---------------- Console ---------------- *)
\* what can go wrong with the resources activate asks the system for
ActivateOutcomes == {"ok", "eventfd_err", "clone_panic", "spawn_err"}

\* Variant of BadCounts that checks the length of queues only.
BadCounts_queues_only(nq, ne) == nq # NUM_QUEUES

\* the check of the lengths of queues and queue_evts
BadCounts(nq, ne) == nq # NUM_QUEUES \/ ne # NUM_QUEUES

\* Variant of AfterTake that borrows the sink and leaves it in the Option.
AfterTake_borrow(o) == o

\* what self.out.take() leaves in Console.out
AfterTake(o) == FALSE

\* Console::activate(mem, interrupt_cb, queues, queue_evts) with nq queues
\* and ne queue eventfds
activate ==
  /\ ~dropped
  /\ activations < MaxActivate
  /\ activations' = activations + 1
  /\ \E nq \in 1..(NUM_QUEUES + 1), ne \in 1..(NUM_QUEUES + 1),
        sys \in ActivateOutcomes :
       LET fd == activations + 1
           rec(result) == [op |-> "activate", nq |-> nq, ne |-> ne,
                           sys |-> sys, result |-> result, out |-> out,
                           kill_evt |-> kill_evt, workers |-> workers]
       IN
       IF BadCounts(nq, ne)
       THEN /\ last' = rec("BadActivate")
            /\ UNCHANGED <<out, kill_evt, pc, h_kill, workers, well_formed>>
       ELSE IF sys = "eventfd_err"
       THEN /\ last' = rec("BadActivate")
            /\ well_formed' = well_formed + 1
            /\ UNCHANGED <<out, kill_evt, pc, h_kill, workers>>
       ELSE
         /\ well_formed' = well_formed + 1
         /\ kill_evt' = fd
         /\ IF out
            THEN /\ out' = AfterTake(out)
                 /\ IF sys = "ok"
                    THEN /\ pc' = "spawned"
                         /\ h_kill' = fd
                         /\ workers' = workers + 1
                         /\ last' = rec("Ok")
                    ELSE /\ last' = rec(IF sys = "clone_panic" THEN "panic"
                                        ELSE "BadActivate")
                         /\ UNCHANGED <<pc, h_kill, workers>>
            ELSE /\ last' = rec("BadActivate")
                 /\ UNCHANGED <<out, pc, h_kill, workers>>
  /\ UNCHANGED <<avail_features, acked_features, dropped, channelVars,
                 recvVars, transVars, interrupts, events, exit, kill_count,
                 input_queue_evt, output_queue_evt>>

\* Drop for Console: write the kill eventfd the Console holds, if any
drop ==
  /\ ~dropped
  /\ dropped' = TRUE
  /\ kill_evt' = 0
  /\ kill_count' = IF kill_evt # 0
                   THEN [kill_count EXCEPT ![kill_evt] = @ + 1]
                   ELSE kill_count
  /\ last' = [op |-> "drop", kill_evt |-> kill_evt]
  /\ UNCHANGED <<out, avail_features, acked_features, channelVars, recvVars,
                 transVars, interrupts, workerVars, input_queue_evt,
                 output_queue_evt, activations, well_formed>>

\* the values and pages the driver acknowledges features with
MaxPage == 2
AckValues == {{}, {0}, {1}, {0, 1}, {31}, {0, 31}, {1, 31}, Bits32 \ {0},
              Bits32}
AckPages == 0..MaxPage

\* Variant of AckedBits that does not mask the unrequested features.
AckedBits_unmasked(page, value, avail) ==
  IF page = 0 THEN value
  ELSE IF page = 1 THEN Shl32(value)
  ELSE {}

\* the value ack_features ORs into acked_features
AckedBits(page, value, avail) ==
  LET v == IF page = 0 THEN value
           ELSE IF page = 1 THEN Shl32(value)
           ELSE {}
      unrequested_features == And64(v, Not64(avail))
  IN IF unrequested_features # {}
     THEN And64(v, Not64(unrequested_features))
     ELSE v

\* Console::ack_features(page, value)
ack_features ==
  /\ ~dropped
  /\ \E page \in AckPages, value \in AckValues :
       /\ acked_features' =
            Or64(acked_features, AckedBits(page, value, avail_features))
       /\ last' = [op |-> "ack_features", page |-> page, value |-> value,
                   acked |-> acked_features]
  /\ UNCHANGED <<out, kill_evt, avail_features, dropped, channelVars,
                 recvVars, transVars, interrupts, workerVars, kill_count,
                 input_queue_evt, output_queue_evt, activations, well_formed>>

(* ---------------- specifications ---------------- *)
\* The state of a device built with a sink once activate has returned Ok and
\* run has registered its four eventfds: the thread is in epoll::wait.
InitRunning ==
  /\ out = FALSE
  /\ kill_evt = 1
  /\ avail_features = {VIRTIO_F_VERSION_1}
  /\ acked_features = {}
  /\ dropped = FALSE
  /\ in_buffer = <<>>
  /\ poisoned = FALSE
  /\ input_evt = 0
  /\ lock = 0
  /\ prod = [p \in Producers |-> Idle(0)]
  /\ recv_desc = <<>>
  /\ recv_avail = <<>>
  /\ recv_used = <<>>
  /\ trans_desc = <<>>
  /\ trans_avail = <<>>
  /\ trans_used = <<>>
  /\ mem = [a \in 0..(MaxRecvChains - 1) |-> <<>>]
  /\ sink = <<>>
  /\ flushes = 0
  /\ interrupts = 0
  /\ pc = "wait"
  /\ events = {}
  /\ h_kill = 1
  /\ kill_count = [i \in 1..MaxActivate |-> 0]
  /\ input_queue_evt = 0
  /\ output_queue_evt = 0
  /\ exit = "none"
  /\ injected = <<>>
  /\ recv_yielded = <<>>
  /\ trans_yielded = <<>>
  /\ workers = 1
  /\ activations = 1
  /\ well_formed = 1
  /\ last = NoCall

\* The receive side of a running device: input producers, the chains the
\* driver offers in its receive queue, and the handler's thread on the
\* input-ready event. The transmit side shares no state with it, and a
\* kick of the receive queue changes none of it (SpecLoop has the kicks).
NextRecv ==
  \/ OfferRecvChain
  \/ queue_input_bytes
  \/ WaitReturns
  \/ HandleInputEvent
  \/ ProcessInput

SpecRecv == InitRunning /\ [][NextRecv]_vars

\* The transmit side of a running device.
NextTrans ==
  \/ OfferTransChain
  \/ KickTrans
  \/ WaitReturns
  \/ HandleOutputQueueEvent

SpecTrans == InitRunning /\ [][NextTrans]_vars

\* The event loop of a running device with a driver that kicks its queues
\* and offers no chain, producers that inject input, and the owner of the
\* Console, who may drop it.
NextLoop ==
  \/ drop
  \/ KickRecv
  \/ KickTrans
  \/ queue_input_bytes
  \/ WaitReturns
  \/ WaitInterrupted
  \/ WaitFails
  \/ HandleInputQueueEvent
  \/ HandleOutputQueueEvent
  \/ HandleInputEvent
  \/ ProcessInput
  \/ HandleKillEvent

SpecLoop == InitRunning /\ [][NextLoop]_vars

\* the thread of the handler is scheduled: a wait with ready events returns,
\* and a dispatch pass goes on
Progress ==
  \/ RunSetup
  \/ WaitReturns
  \/ HandleInputQueueEvent
  \/ HandleOutputQueueEvent
  \/ HandleInputEvent
  \/ ProcessInput
  \/ HandleKillEvent

FairLoop == SpecLoop /\ WF_vars(Progress)

\* The life of the Console and of the thread it starts, from Console::new
\* to the end of the thread: the calls of activate, the drop, and the steps
\* of a thread that sees no event but the kill event.
Next ==
  \/ activate
  \/ drop
  \/ RunSetup
  \/ WaitReturns
  \/ WaitInterrupted
  \/ WaitFails
  \/ HandleKillEvent

Spec == Init /\ [][Next]_vars

FairSpec == Spec /\ WF_vars(Progress)

\* feature negotiation, which nothing else of the device reads
NextFeatures == ack_features

SpecFeatures == Init /\ [][NextFeatures]_vars

\* A driver that offers one-byte buffers and kicks a queue after it has
\* offered in it, and producers whose input arrives when the previous
\* input-ready notification was consumed: the environment of the
\* specifications that have both queues of the running device.
OffersRecv(max) ==
  /\ Len(recv_desc) < max
  /\ OfferRecvChain
  /\ recv_desc'[Len(recv_desc')].len = 1

\* one character to transmit, at a mapped address
OffersTrans(max) ==
  /\ Len(trans_desc) < max
  /\ OfferTransChain
  /\ trans_desc'[Len(trans_desc')].len = 1
  /\ Mapped(trans_desc'[Len(trans_desc')].addr)

\* a queue_input_bytes call that brings the injected bytes to max at most
Arrives(max) ==
  /\ input_evt = 0
  /\ queue_input_bytes
  /\ Len(injected') <= max

\* the driver notifies the device of the buffers it has offered
DriverKicksRecv ==
  /\ recv_avail # <<>>
  /\ input_queue_evt = 0
  /\ KickRecv

DriverKicksTrans ==
  /\ trans_avail # <<>>
  /\ output_queue_evt = 0
  /\ KickTrans

\* The whole event loop of the running device, with every event and every
\* failure but the kill event.
DevRecvChains == 1    \* receive chains offered in SpecDevice
DevTransChains == 1   \* transmit chains offered in SpecDevice
DevInject == 1        \* bytes injected in SpecDevice

DriverOffersRecv == OffersRecv(DevRecvChains)
DriverOffersTrans == OffersTrans(DevTransChains)
InputArrives == Arrives(DevInject)

NextDevice ==
  \/ DriverOffersRecv
  \/ DriverOffersTrans
  \/ DriverKicksRecv
  \/ DriverKicksTrans
  \/ InputArrives
  \/ WaitReturns
  \/ WaitInterrupted
  \/ WaitFails
  \/ HandleInputQueueEvent
  \/ HandleOutputQueueEvent
  \/ HandleInputEvent
  \/ ProcessInput

SpecDevice == InitRunning /\ [][NextDevice]_vars

\* The event loop with, in addition, event values the match of run does not
\* know.
NextFailures ==
  \/ NextDevice
  \/ WaitReturnsOther
  \/ HandleOtherEvent

SpecFailures == InitRunning /\ [][NextFailures]_vars

\* Both processors of the running device, with enough chains and input for
\* a processor to take several chains in one call.
QueueRecvChains == 2    \* receive chains offered in SpecQueues
QueueTransChains == 2   \* transmit chains offered in SpecQueues
QueueInject == 3        \* bytes injected in SpecQueues

QueueOffersRecv == OffersRecv(QueueRecvChains)
QueueOffersTrans == OffersTrans(QueueTransChains)
QueueInputArrives == Arrives(QueueInject)

NextQueues ==
  \/ QueueOffersRecv
  \/ QueueOffersTrans
  \/ DriverKicksTrans
  \/ QueueInputArrives
  \/ WaitReturns
  \/ HandleOutputQueueEvent
  \/ HandleInputEvent
  \/ ProcessInput

SpecQueues == InitRunning /\ [][NextQueues]_vars

\* The input channel under concurrency: producer threads in
\* queue_input_bytes, step by step, the worker on the input-ready event, and
\* a driver that offers one-byte receive buffers.
NextInput ==
  \/ ProducerLocks
  \/ ProducerExtends
  \/ ProducerNotifies
  \/ ProducerReturns
  \/ DriverOffersRecv
  \/ WaitReturns
  \/ HandleInputEvent
  \/ ProcessInput

SpecInput == InitRunning /\ [][NextInput]_vars

(* ---------------- properties of the receive path ---------------- *)
\* the chain the driver offered with descriptor index i
RecvChain(i) == recv_desc[i + 1]
TransChain(i) == trans_desc[i + 1]

\* what the driver reads for a used-ring entry of the receive queue: the
\* first len bytes of the buffer of the chain
UsedBytes(m, e) == SubSeq(m[RecvChain(e.index).addr], 1, e.len)

\* the bytes delivered to the guest, in used-ring order
Delivered ==
  Concat([k \in 1..Len(recv_used) |-> UsedBytes(mem, recv_used[k])])

\* the used-ring entries the last processor invocation added
NewRecvUsed == SubSeq(recv_used, last.nused + 1, Len(recv_used))
NewTransUsed == SubSeq(trans_used, last.nused + 1, Len(trans_used))

\* C1: at all times the bytes written to guest memory, in used-ring order,
\* are a prefix of the injected bytes and the channel holds exactly the
\* remaining suffix: no byte is lost, duplicated or reordered.
C1_FifoDelivery ==
  /\ IsPrefix(Delivered, injected)
  /\ Delivered \o in_buffer = injected

\* the number of used-ring entries of a queue that name chain i
TimesUsed(used, i) == Cardinality({k \in DOMAIN used : used[k].index = i})

\* C2: every chain the iterator yielded in process_input_queue or
\* process_output_queue has been marked used exactly once when the function
\* has returned, with a length not above the chain's length.
C2_YieldedMarkedOnce ==
  /\ \A k \in DOMAIN recv_yielded : TimesUsed(recv_used, recv_yielded[k]) = 1
  /\ \A k \in DOMAIN trans_yielded :
       TimesUsed(trans_used, trans_yielded[k]) = 1
  /\ \A k \in DOMAIN recv_used :
       recv_used[k].len <= RecvChain(recv_used[k].index).len
  /\ \A k \in DOMAIN trans_used :
       trans_used[k].len <= TransChain(trans_used[k].index).len

\* C3: process_input_queue called with an empty channel consumes no chain,
\* adds no used-ring entry, leaves the available chains pending, returns
\* false and no interrupt is signalled; called with no available chain it
\* adds no used-ring entry and returns false.
C3_EmptyChannelNoEffect ==
  last.op = "process_input_queue" =>
    /\ last.buf = <<>> =>
         /\ recv_avail = last.avail
         /\ Len(recv_used) = last.nused
         /\ ~last.ret
         /\ interrupts = last.interrupts
    /\ last.avail = <<>> =>
         /\ Len(recv_used) = last.nused
         /\ ~last.ret

\* the bytes the last process_input_queue invocation wrote to the buffers of
\* the chains it marked used
WrittenByLast ==
  Concat([k \in 1..Len(NewRecvUsed) |-> UsedBytes(mem, NewRecvUsed[k])])

\* C4: when a guest-memory write fails in process_input_queue, the chains
\* completed before it are marked used with their lengths, the failing chain
\* is not marked used and is the last one yielded, and every buffered byte
\* not written to guest memory is still in the channel, in order.
C4_WriteFailureKeepsBytes ==
  (last.op = "process_input_queue" /\ last.failed) =>
    LET nyielded == Len(last.avail) - Len(recv_avail)
        failing == last.avail[nyielded]
    IN /\ nyielded >= 1
       /\ ~Mapped(failing.addr)
       /\ TimesUsed(recv_used, failing.index) = 0
       /\ Len(NewRecvUsed) = nyielded - 1
       /\ \A k \in 1..Len(NewRecvUsed) :
            NewRecvUsed[k].index = last.avail[k].index
       /\ last.buf = WrittenByLast \o in_buffer

(* ---------------- properties of the transmit path ---------------- *)
\* the used-ring entries that mark every chain of avail with its length
AllUsed(avail) ==
  [k \in 1..Len(avail) |-> [index |-> avail[k].index, len |-> avail[k].len]]

\* C5 as stated: one process_output_queue invocation consumes every
\* available transmit chain, the sink receives the bytes of every chain in
\* offer order, is flushed once per chain, every chain is marked used with
\* its length, and the result is true iff a chain was available.
C5_AllBytesReachSink ==
  last.op = "process_output_queue" =>
    /\ trans_avail = <<>>
    /\ sink = last.sink \o
         Concat([k \in 1..Len(last.avail) |-> TxData(last.avail[k])])
    /\ flushes = last.nflush + Len(last.avail)
    /\ NewTransUsed = AllUsed(last.avail)
    /\ last.ret <=> (last.avail # <<>>)

\* the bytes of chain k of the last invocation that reached the sink
Transferred(k) ==
  IF k \in FailedWrites(last.avail, last.w)
  THEN SubSeq(TxData(last.avail[k]), 1, last.w[k])
  ELSE TxData(last.avail[k])

\* C5 as amended: as C5, but the sink receives all the bytes of a chain only
\* when its write_to succeeds, and fewer than all the bytes of a chain whose
\* guest-memory read or sink write fails.
C5_BytesOfGoodChainsReachSink ==
  last.op = "process_output_queue" =>
    /\ trans_avail = <<>>
    /\ sink = last.sink \o
         Concat([k \in 1..Len(last.avail) |-> Transferred(k)])
    /\ \A k \in FailedWrites(last.avail, last.w) :
         Len(Transferred(k)) < last.avail[k].len
    /\ flushes = last.nflush + Len(last.avail)
    /\ NewTransUsed = AllUsed(last.avail)
    /\ last.ret <=> (last.avail # <<>>)

\* two chains, the first of which fails and the second of which is written
C5_Witness ==
  /\ last.op = "process_output_queue"
  /\ Len(last.avail) = 2
  /\ FailedWrites(last.avail, last.w) = {1}
  /\ Len(sink) > Len(last.sink)
  /\ last.ret

\* C6: whatever chains fail in write_to (guest-memory read, sink write) or
\* in flush, process_output_queue goes through all the available chains and
\* each of them, the failing ones and the later ones, is in the used ring
\* once, with its full length.
C6_FailuresStillMarkUsed ==
  last.op = "process_output_queue" =>
    /\ Len(NewTransUsed) = Len(last.avail)
    /\ \A k \in 1..Len(last.avail) :
         /\ TimesUsed(NewTransUsed, last.avail[k].index) = 1
         /\ TimesUsed(trans_used, last.avail[k].index) = 1
         /\ \E j \in DOMAIN NewTransUsed :
              NewTransUsed[j] = [index |-> last.avail[k].index,
                                 len |-> last.avail[k].len]

\* the first of two chains fails in write_to and in flush
C6_Witness ==
  /\ last.op = "process_output_queue"
  /\ Len(last.avail) = 2
  /\ 1 \in FailedWrites(last.avail, last.w)
  /\ 1 \in last.flush_err
  /\ Len(trans_used) >= 2

(* ---------------- properties of the life of the device ---------------- *)
\* the kill eventfd of the handler has been written
KillSignalled == h_kill # 0 /\ kill_count[h_kill] > 0

\* C7: once the kill eventfd of the handler is signalled, the thread ends,
\* wherever the thread was when the signal came; the signal stays pending,
\* and once the thread has seen it, it handles no other event.
C7_KillStopsWorker ==
  /\ KillSignalled ~> (pc = "stopped")
  /\ [][KillSignalled => KillSignalled']_vars
  /\ [][exit = "kill" =>
          /\ pc' = "stopped"
          /\ exit' = "kill"
          /\ UNCHANGED <<events, recvVars, transVars, interrupts>>
          /\ input_evt' >= input_evt
          /\ input_queue_evt' >= input_queue_evt
          /\ output_queue_evt' >= output_queue_evt]_vars

\* the thread ended on the kill event of a dropped Console, leaving the
\* other events of the pass unhandled
C7_Witness ==
  /\ dropped
  /\ pc = "stopped"
  /\ exit = "kill"
  /\ events # {}

\* an activate record r names a number of queues or of eventfds other than 2
WrongCounts(r) == r.nq # 2 \/ r.ne # 2

\* C8: activate with a number of queues or of queue eventfds other than 2
\* returns BadActivate and changes nothing of the device: no thread, the
\* sink still held, no kill eventfd recorded.
C8_BadCountsChangeNothing ==
  [][(activations' = activations + 1 /\ WrongCounts(last')) =>
       /\ last'.result = "BadActivate"
       /\ UNCHANGED <<consoleVars, channelVars, recvVars, transVars,
                      workerVars, interrupts, kill_count, input_queue_evt,
                      output_queue_evt, well_formed>>]_vars

\* an activate with 2 queues and 2 eventfds succeeded after one that was
\* rejected for its counts
C8_Witness ==
  /\ last.op = "activate"
  /\ last.result = "Ok"
  /\ activations = 2
  /\ well_formed = 1
  /\ pc = "spawned"

\* C9 as stated: at most one thread is ever started; the first activate
\* with 2 queues and 2 eventfds of a device built with a sink takes the sink
\* and starts the thread; every later one, and every one of a device built
\* without a sink, returns BadActivate and starts nothing.
C9_FirstActivateStarts ==
  /\ workers <= 1
  /\ (last.op = "activate" /\ ~WrongCounts(last)) =>
       IF well_formed = 1 /\ last.out
       THEN /\ last.result = "Ok"
            /\ ~out
            /\ workers = last.workers + 1
       ELSE /\ last.result = "BadActivate"
            /\ workers = last.workers

\* C9 as amended: at most one thread is ever started; an activate starts the
\* thread, and returns Ok, exactly when it has 2 queues and 2 eventfds, the
\* Console still holds its sink and the kill eventfd pair, the clone of
\* input_evt and the spawn all succeed, and it then takes the sink; once the
\* Console holds no sink every activate returns BadActivate and starts
\* nothing.
C9_AtMostOneWorker ==
  /\ workers <= 1
  /\ last.op = "activate" =>
       /\ last.result = "Ok" <=>
            (~WrongCounts(last) /\ last.out /\ last.sys = "ok")
       /\ last.result = "Ok" => (~out /\ workers = last.workers + 1)
       /\ last.result # "Ok" => workers = last.workers
       /\ ~last.out => last.result = "BadActivate"

\* a second activate, after the one that started the thread, is rejected
C9_Witness ==
  /\ last.op = "activate"
  /\ ~WrongCounts(last)
  /\ last.sys = "ok"
  /\ last.result = "BadActivate"
  /\ workers = 1
  /\ activations = 2

(* ---------------- properties of feature negotiation ---------------- *)
\* the bits of the 64-bit feature word a (page, value) pair names
PageBits(page, value) ==
  IF page = 0 THEN value
  ELSE IF page = 1 THEN {b + 32 : b \in value}
  ELSE {}

\* C10: acked_features stays within avail_features, which is the VERSION_1
\* bit; a call adds exactly the bits of the addressed page that are in
\* avail_features, clears nothing, and changes nothing for a page other
\* than 0 and 1.
C10_AckedWithinAvail ==
  /\ acked_features \subseteq avail_features
  /\ acked_features \subseteq {VIRTIO_F_VERSION_1}
  /\ last.op = "ack_features" =>
       /\ acked_features =
            last.acked \cup (PageBits(last.page, last.value)
                             \cap avail_features)
       /\ last.acked \subseteq acked_features
       /\ last.page \notin {0, 1} => acked_features = last.acked

\* VERSION_1 acknowledged in a call that also named bits not offered
C10_Witness ==
  /\ last.op = "ack_features"
  /\ last.page = 1
  /\ last.value = Bits32
  /\ last.acked = {}
  /\ acked_features = {VIRTIO_F_VERSION_1}

(* ---------------- one chain, one invocation ---------------- *)
\* C11: process_input_queue called with n >= 1 buffered bytes and exactly
\* one available receive chain, of length L at a writable address, writes
\* the first min(n, L) buffered bytes at the address of the chain, marks the
\* chain used with length min(n, L), leaves the other n - min(n, L) bytes in
\* the channel in their order, and returns true.
C11_SingleChain ==
  (/\ last.op = "process_input_queue"
   /\ Len(last.buf) >= 1
   /\ Len(last.avail) = 1
   /\ Mapped(last.avail[1].addr)) =>
    LET d == last.avail[1]
        n == Len(last.buf)
        k == IF n <= d.len THEN n ELSE d.len
    IN /\ ~last.panic
       /\ SubSeq(mem[d.addr], 1, k) = SubSeq(last.buf, 1, k)
       /\ NewRecvUsed = <<[index |-> d.index, len |-> k]>>
       /\ in_buffer = SubSeq(last.buf, k + 1, n)
       /\ recv_avail = <<>>
       /\ last.ret

\* scenario A: three buffered bytes and one writable chain of length 2
C11_Witness ==
  /\ last.op = "process_input_queue"
  /\ last.buf = <<65, 66, 67>>
  /\ Len(last.avail) = 1
  /\ Mapped(last.avail[1].addr)
  /\ last.avail[1].len = 2
  /\ mem[last.avail[1].addr] = <<65, 66>>
  /\ in_buffer = <<67>>
  /\ last.ret

(* ---------------- the interrupt ---------------- *)
\* C12: a step of the event loop calls the interrupt callback exactly when
\* it is the handling of an input-ready event in which process_input_queue
\* added an entry to the receive used ring, and it does so within that
\* handling, before the loop handles another event; the handling of a
\* transmit-queue kick or of a receive-queue kick never calls it, even when
\* it marks transmit chains used. The callback was called in a step when
\* the interrupt count grew or the loop stopped on the callback's error.
C12_SignalOnlyAfterReceive ==
  [][LET signalled == \/ interrupts' # interrupts
                      \/ exit' = "signal_err" /\ exit # "signal_err"
     IN /\ signalled <=> (pc = "input" /\ Len(recv_used') > Len(recv_used))
        /\ interrupts' \in {interrupts, interrupts + 1}
        /\ pc = "dispatch" => ~signalled
        /\ trans_used' # trans_used => ~signalled]_vars

\* one interrupt was signalled for the receive queue, and the handling of a
\* transmit kick that marked a chain used has left the count alone
C12_Witness ==
  /\ last.op = "process_output_queue"
  /\ Len(trans_used) > last.nused
  /\ Len(recv_used) >= 1
  /\ last.interrupts = 1
  /\ interrupts = 1

(* ---------------- the receive-queue kick ---------------- *)
\* C13: the handling of a receive-queue kick only reads the kick's eventfd:
\* it leaves the channel, guest memory, both used rings and the available
\* receive chains as they are and signals no interrupt. Bytes therefore
\* leave the channel, and guest memory and the receive used ring change,
\* only in the handling of an input-ready event, whatever chains the driver
\* has offered and kicked in the meantime.
C13_RecvKickOnlyDrains ==
  [][/\ (/\ pc = "dispatch"
         /\ INPUT_QUEUE_EVENT \in events
         /\ INPUT_QUEUE_EVENT \notin events') =>
          /\ UNCHANGED <<in_buffer, mem, recv_used, trans_used, recv_avail,
                         interrupts>>
          /\ input_queue_evt' \in {0, input_queue_evt}
          /\ exit' \in {exit, "read_err"}
     /\ (\/ in_buffer' # in_buffer /\ Len(in_buffer') <= Len(in_buffer)
         \/ mem' # mem
         \/ recv_used' # recv_used) => pc = "input"]_vars

\* bytes were left in the channel, the driver has then offered a chain and
\* kicked the queue, and the kick has been handled: the bytes are still in
\* the channel and the chain is still available
C13_Witness ==
  /\ last.op = "input_queue_evt"
  /\ last.read_ok
  /\ input_queue_evt = 0
  /\ in_buffer # <<>>
  /\ recv_avail # <<>>
  /\ input_evt = 0
  /\ Mapped(recv_avail[1].addr)

(* ---------------- concurrent producers ---------------- *)
\* the batch a byte of the channel comes from
BatchId(b) == b \div MaxBatch

\* the bytes of every batch are next to each other, in the order of the
\* batch, in the sequence of all bytes appended to the channel
Contiguous(s) ==
  \A i, j \in DOMAIN s :
    (i < j /\ BatchId(s[i]) = BatchId(s[j])) => s[j] = s[i] + (j - i)

\* C14: in every interleaving of the producers with each other and with the
\* worker, a byte is appended to the channel only by the thread that holds
\* the lock, so that the bytes of two batches are never interleaved;
\* process_input_queue runs only while no producer is between lock and
\* return; and input_evt is written for a batch only when all the bytes of
\* the batch are at the end of the channel.
C14_BatchesAtomic ==
  [][/\ Contiguous(injected')
     /\ \A p \in Producers :
          /\ prod'[p].pos > prod[p].pos => lock = p
          /\ (prod[p].pc = "extend" /\ prod'[p].pc = "written") =>
               /\ input_evt' = input_evt + 1
               /\ Len(in_buffer) >= Len(prod[p].batch)
               /\ SubSeq(in_buffer,
                         Len(in_buffer) - Len(prod[p].batch) + 1,
                         Len(in_buffer)) = prod[p].batch
     /\ input_evt' > input_evt =>
          \E p \in Producers :
            prod[p].pc = "extend" /\ prod'[p].pc = "written"
     /\ (pc = "input" /\ pc' # "input") =>
          \A p \in Producers : prod[p].pc \in {"idle", "panicked"}]_vars

\* two batches are in the channel, one after the other, and both producers
\* have returned
C14_Witness ==
  /\ Len(in_buffer) = MaxInject
  /\ BatchId(in_buffer[1]) # BatchId(in_buffer[MaxInject])
  /\ \A p \in Producers : prod[p].pc = "idle" /\ prod[p].calls = 1
  /\ input_evt >= 1

(* ---------------- coalesced notifications ---------------- *)
\* the number of bytes the chains of avail can take
RECURSIVE Capacity(_)
Capacity(avail) ==
  IF avail = <<>> THEN 0 ELSE Head(avail).len + Capacity(Tail(avail))

\* C15, as what it asks of one run of the receive path: when
\* process_input_queue is called with available chains at writable
\* addresses that can take every buffered byte, the worker goes on running, every buffered byte is written
\* to the buffers of the chains marked used, in order, and the channel is
\* left empty; so that no byte waits in the channel for a notification that
\* was coalesced away.
C15_NoStrandedBytes ==
  (/\ last.op = "process_input_queue"
   /\ \A k \in DOMAIN last.avail : Mapped(last.avail[k].addr)
   /\ Capacity(last.avail) >= Len(last.buf)) =>
    /\ ~last.panic
    /\ pc # "stopped" \/ exit = "signal_err"
    /\ WrittenByLast = last.buf
    /\ in_buffer = <<>>

(* ---------------- order of the used rings ---------------- *)
\* the descriptor indices of a sequence of chains or of used-ring entries
Indices(s) == [k \in DOMAIN s |-> s[k].index]

\* the chains of avail that are no longer available
Consumed(before, after) ==
  SubSeq(before, 1, Len(before) - Len(after))

\* C16: one call of process_input_queue or of process_output_queue adds its
\* entries to the used ring in the order in which it took the chains from
\* the available ring, and the entries appear when the iteration is over:
\* every chain the call took has left the available ring. Over all calls
\* the entries of each used ring are in the order in which the driver
\* offered the chains (the index of a chain is its rank in that order).
C16_UsedInOfferOrder ==
  /\ last.op = "process_input_queue" =>
       /\ IsPrefix(Indices(NewRecvUsed),
                   Indices(Consumed(last.avail, recv_avail)))
       /\ recv_avail = SubSeq(last.avail,
                              Len(last.avail) - Len(recv_avail) + 1,
                              Len(last.avail))
  /\ last.op = "process_output_queue" =>
       /\ IsPrefix(Indices(NewTransUsed),
                   Indices(Consumed(last.avail, trans_avail)))
       /\ trans_avail = SubSeq(last.avail,
                               Len(last.avail) - Len(trans_avail) + 1,
                               Len(last.avail))
  /\ \A i, j \in DOMAIN recv_used :
       i < j => recv_used[i].index < recv_used[j].index
  /\ \A i, j \in DOMAIN trans_used :
       i < j => trans_used[i].index < trans_used[j].index

\* one call of process_input_queue has marked two chains used, after one
\* call of process_output_queue had done so
C16_Witness ==
  /\ last.op = "process_input_queue"
  /\ Len(NewRecvUsed) = 2
  /\ Len(trans_used) = 2
  /\ Len(trans_yielded) = 2
  /\ trans_avail = <<>>

(* ---------------- failures of the event loop ---------------- *)
\* what the device has done for the guest and the host
DeviceEffects ==
  <<recv_used, trans_used, mem, sink, flushes, interrupts, recv_yielded,
    trans_yielded>>

\* C17: a failed interrupt callback and a failed read of the receive-kick,
\* transmit-kick or input-ready eventfd stop the event loop, and the stopped
\* loop stays stopped: from then on no chain is taken from a queue, no
\* used-ring entry is added, nothing is written to guest memory or to the
\* sink, no interrupt is signalled, no eventfd is read, and the channel only
\* grows at its end. A wait interrupted by EINTR and an event value run
\* does not know leave the loop running and change nothing of the device.
C17_StoppedIsAbsorbing ==
  [][/\ (exit' # exit /\ exit' \in {"read_err", "signal_err"}) =>
          pc' = "stopped"
     /\ pc = "stopped" =>
          /\ pc' = "stopped"
          /\ exit' = exit
          /\ events' = events
          /\ UNCHANGED DeviceEffects
          /\ Len(recv_avail') >= Len(recv_avail)
          /\ Len(trans_avail') >= Len(trans_avail)
          /\ IsPrefix(in_buffer, in_buffer')
          /\ input_evt' >= input_evt
          /\ input_queue_evt' >= input_queue_evt
          /\ output_queue_evt' >= output_queue_evt
     /\ last'.op = "wait_eintr" =>
          /\ pc = "wait" /\ pc' = "wait"
          /\ UNCHANGED <<consoleVars, channelVars, recvVars, transVars,
                         interrupts, events, exit, input_queue_evt,
                         output_queue_evt>>
     /\ (pc = "dispatch" /\ OTHER_EVENT \in events
                         /\ OTHER_EVENT \notin events') =>
          /\ pc' \in {"wait", "dispatch"}
          /\ UNCHANGED <<consoleVars, channelVars, recvVars, transVars,
                         interrupts, exit, input_queue_evt,
                         output_queue_evt>>]_vars

\* the interrupt callback has failed, the loop has stopped, and a byte
\* injected since then waits in the channel with its notification
C17_Witness ==
  /\ pc = "stopped"
  /\ exit = "signal_err"
  /\ last.op = "queue_input_bytes"
  /\ in_buffer # <<>>
  /\ input_evt > 0

(* ---------------- the drain and the lock ---------------- *)
\* C18: whatever the length of the channel and the lengths of the available
\* receive chains, every range process_input_queue drains lies within the
\* channel, so that the call does not panic while it holds the lock: the
\* mutex is never poisoned and no later queue_input_bytes call panics in
\* lock().unwrap().
C18_DrainWithinChannel ==
  /\ last.op = "process_input_queue" => ~last.panic
  /\ ~poisoned
  /\ exit # "panic"
  /\ last.op = "queue_input_bytes" => ~last.panicked

(* ---------------- the kill notification of the Console ---------------- *)
\* C19: after any sequence of activate calls, failed ones after a successful
\* one included, the kill eventfd the Console holds is the one the worker
\* it started waits on, so that dropping the Console signals that worker;
\* a failed activate never replaces it.
C19_ConsoleHoldsWorkersKill ==
  /\ (workers > 0 /\ ~dropped) => kill_evt = h_kill
  /\ (workers > 0 /\ last.op = "drop") => KillSignalled

(* ---------------- bytes removed and bytes recorded ---------------- *)
\* the sum of the lengths of used-ring entries
RECURSIVE SumLen(_)
SumLen(used) == IF used = <<>> THEN 0 ELSE Head(used).len + SumLen(Tail(used))

\* C20: for every call of process_input_queue, the number of bytes the call
\* removed from the channel is the sum of the lengths it recorded in the
\* used ring, and the length recorded for a chain is the number of bytes
\* the call wrote at the address of the chain: the bytes it removed are the
\* bytes the driver finds in the buffers marked used.
C20_RemovedEqualsRecorded ==
  last.op = "process_input_queue" =>
    /\ Len(last.buf) - Len(in_buffer) = SumLen(NewRecvUsed)
    /\ \A k \in DOMAIN NewRecvUsed :
         LET a == RecvChain(NewRecvUsed[k].index).addr
         IN /\ Mapped(a)
            /\ Len(mem[a]) - Len(last.mem[a]) = NewRecvUsed[k].len

====
